---- MODULE Spec2Model ----
(***************************************************************************)
(* Model of the auto-buy bot's swap engine: autoBuyToken (src/main.js),    *)
(* getBestQuote over the two providers, the Jupiter swap                   *)
(* (src/unnamed/part_000) and the Raydium swap (src/main.js).              *)
(* Every await of the code is one action; the answers of the chain and of  *)
(* the providers' HTTP endpoints are chosen nondeterministically.          *)
(***************************************************************************)
EXTENDS Integers, Sequences, FiniteSets, TLC

\* ---------------------------------------------------------------- bounds
MaxAmount == 3
MaxTx == 2
MaxCycles == 1
MaxCalls == 2
NumWallets == 2

\* ------------------------------------------------------ program constants
LAMPORTS_BUFFER == 10000000
maxTries == 5

Providers == {"jupiter", "raydium"}
Amounts == 1..MaxAmount
TxIdx == 1..MaxTx

\* the wallets loadWallets returns, named by their rank in SECRET_KEYS
Wallets == 1..NumWallets

\* loadWallets: one entry per secret key, in the order of the keys
LoadWallets == [i \in 1..NumWallets |-> i]

\* [array[i], array[j]] = [array[j], array[i]]
SwapEntries(array, i, j) == [array EXCEPT ![i] = array[j], ![j] = array[i]]

\* shuffleArray's loop from index i down to the second entry: every j the
\* random draw can give is an outcome
RECURSIVE ShuffleFrom(_, _)
ShuffleFrom(array, i) ==
    IF i <= 1
    THEN {array}
    ELSE UNION {ShuffleFrom(SwapEntries(array, i, j), i - 1) : j \in 1..i}

\* shuffleArray: the orders one Fisher-Yates pass can leave the array in
ShuffleArray(array) == ShuffleFrom(array, Len(array))

\* wallet balances the chain may report (below, at and above the threshold)
Balances == {0, 2 * LAMPORTS_BUFFER - 1, 2 * LAMPORTS_BUFFER, 3 * LAMPORTS_BUFFER}

\* answers of the Jupiter quote endpoint: a quote, an HTTP error status, a
\* network failure, an empty body, or a body without outAmount
JupiterResponses ==
    [kind : {"ok"}, out : Amounts]
        \cup [kind : {"http401", "httpOther", "network", "empty", "noOutAmount"},
              out : {0}]

\* answers of the Raydium compute endpoint: a route, an HTTP error status, a
\* network failure, a body without data, or data without outputAmount
RaydiumResponses ==
    [kind : {"ok"}, out : Amounts]
        \cup [kind : {"http404", "httpOther", "network", "invalid",
                      "noOutputAmount"},
              out : {0}]

NoResponse == [kind |-> "none", out |-> 0]
NoQuote == [provider |-> "none", outAmount |-> 0]
NoMintRead == [kind |-> "none", owner |-> "none"]
NoAta == [mint |-> "none", owner |-> "none", program |-> "none"]

VARIABLES
    pc,               \* position of the single logical flow
    cycle,            \* iterations of main's while(true) started so far
    wallets,          \* main: the wallets array, in its current order
    wi,               \* main: rank in wallets of the wallet in hand (1-based)
    processed,        \* autoBuyToken calls made for each wallet in this cycle
    solanaLamports,   \* autoBuyToken: balance read
    solAmount,        \* autoBuyToken: amount handed to the swap
    quoteResp,        \* answer each provider gave to getBestQuote's request
    quoteErr,         \* error getBestQuote caught for each provider
    quotes,           \* getBestQuote: the quotes array
    bestQuote,        \* autoBuyToken: bestQuote
    swapProvider,     \* autoBuyToken: swapFunction
    quoteResponse,    \* swap: outAmount of the quote fetched by the swap itself
    nTx,              \* swap: allTransactions.length
    idx,              \* swap: index of the transaction in hand (1-based)
    maxTriesCounter,  \* Jupiter swap: maxTriesCounter
    tryAgain,         \* Jupiter swap: tryAgain
    lastSignature,    \* Raydium swap: lastSignature (0 = null)
    signed,           \* transactions signed in this attempt
    status,           \* last status observed for each transaction
    polls,            \* getSignatureStatus calls of this attempt
    settles,          \* transactions after which the settling wait was done
    quoteReqs,        \* quote requests sent to each provider in this attempt
    buildReqs,        \* build requests sent to each provider in this attempt
    submitted,        \* network submissions of this attempt, in order
    failedAt,         \* transaction whose sign/submit/confirm step threw
    outcome,          \* "none" | "ok" | "error": how the attempt's try ended
    err,              \* the error raised
    result,           \* outAmount of the value the swap returned
    swapQuoteResp,    \* answer to the quote request the swap itself sent
    signature,        \* signature field of the value the swap returned (0 = none)
    mintOwner,        \* chain: program that owns the output mint
    ataOnChain,       \* chain: associated token accounts that exist
    createTxs,        \* account-creation transactions sent to the network
    epc,              \* ensureOutputATA: position of the call in progress
    call,             \* ensureOutputATA: calls started so far
    mintRead,         \* detectTokenProgram: answer of getAccountInfo
    outputTokenProgram, \* ensureOutputATA: outputTokenProgram
    outputAta,        \* ensureOutputATA: outputAta
    returned          \* ensureOutputATA: the addresses the calls returned

vars == <<pc, cycle, wallets, wi, processed, solanaLamports, solAmount, quoteResp, quoteErr, quotes,
          bestQuote, swapProvider, quoteResponse, nTx, idx, maxTriesCounter,
          tryAgain, lastSignature, signed, status, polls, settles, quoteReqs,
          buildReqs, submitted, failedAt, outcome, err, result, swapQuoteResp,
          signature, mintOwner, ataOnChain, createTxs, epc, call, mintRead,
          outputTokenProgram, outputAta, returned>>

\* the chain state and the variables of ensureOutputATA
AtaVars == <<mintOwner, ataOnChain, createTxs, epc, call, mintRead,
             outputTokenProgram, outputAta, returned>>

\* variables of one autoBuyToken call (everything except pc and cycle)
FreshCall ==
    /\ solanaLamports = 0
    /\ solAmount = 0
    /\ quoteResp = [p \in Providers |-> NoResponse]
    /\ quoteErr = [p \in Providers |-> "none"]
    /\ quotes = <<>>
    /\ bestQuote = NoQuote
    /\ swapProvider = "none"
    /\ quoteResponse = 0
    /\ nTx = 0
    /\ idx = 0
    /\ maxTriesCounter = 0
    /\ tryAgain = FALSE
    /\ lastSignature = 0
    /\ signed = {}
    /\ status = [i \in TxIdx |-> "none"]
    /\ polls = 0
    /\ settles = {}
    /\ quoteReqs = [p \in Providers |-> 0]
    /\ buildReqs = [p \in Providers |-> 0]
    /\ submitted = <<>>
    /\ failedAt = 0
    /\ outcome = "none"
    /\ err = "none"
    /\ result = 0
    /\ swapQuoteResp = NoResponse
    /\ signature = 0

\* no call of ensureOutputATA has been made
AtaIdle ==
    /\ createTxs = 0
    /\ epc = "idle"
    /\ call = 0
    /\ mintRead = NoMintRead
    /\ outputTokenProgram = "none"
    /\ outputAta = NoAta
    /\ returned = <<>>

Init ==
    /\ pc = "main"
    /\ cycle = 0
    /\ wallets = LoadWallets
    /\ wi = 0
    /\ processed = [w \in Wallets |-> 0]
    /\ FreshCall
    /\ mintOwner = "Token"
    /\ ataOnChain = {}
    /\ AtaIdle

\* ------------------------------------------------------------ pure parts

\* the getJupiterQuote catch block without the test for status 401
GetJupiterQuote_No401(resp) ==
    IF resp.kind = "ok"
    THEN [ok |-> TRUE, error |-> "none",
          quote |-> [provider |-> "jupiter", outAmount |-> resp.out]]
    ELSE [ok |-> FALSE, error |-> "Jupiter quote failed", quote |-> NoQuote]

\* getJupiterQuote: what the function returns or throws for an HTTP answer
GetJupiterQuote(resp) ==
    IF resp.kind = "ok"
    THEN [ok |-> TRUE, error |-> "none",
          quote |-> [provider |-> "jupiter", outAmount |-> resp.out]]
    ELSE IF resp.kind = "http401"
    THEN [ok |-> FALSE, error |-> "Jupiter API requires authentication",
          quote |-> NoQuote]
    ELSE [ok |-> FALSE, error |-> "Jupiter quote failed", quote |-> NoQuote]

\* getSwapData: the compute answer, or the error it rethrows
GetSwapData(resp) ==
    IF resp.kind \in {"ok", "invalid", "noOutputAmount"}
    THEN [ok |-> TRUE, error |-> "none", data |-> resp]
    ELSE IF resp.kind = "http404"
    THEN [ok |-> FALSE, error |-> "Raydium API endpoint not available",
          data |-> NoResponse]
    ELSE [ok |-> FALSE, error |-> "Raydium request failed", data |-> NoResponse]

\* getQuote of the Raydium client: every failure becomes "Raydium quote failed"
RaydiumGetQuote(resp) ==
    LET computeData == GetSwapData(resp)
    IN  IF computeData.ok /\ computeData.data.kind = "ok"
        THEN [ok |-> TRUE, error |-> "none",
              quote |-> [provider |-> "raydium", outAmount |-> resp.out]]
        ELSE [ok |-> FALSE, error |-> "Raydium quote failed", quote |-> NoQuote]

\* the callback with >= in place of >: a later equal quote replaces the
\* earlier one
ReduceStep_GreaterEq(best, current) ==
    IF current.outAmount >= best.outAmount THEN current ELSE best

\* the callback with the comparison turned around
ReduceStep_Less(best, current) ==
    IF current.outAmount < best.outAmount THEN current ELSE best

\* the callback of quotes.reduce
ReduceStep(best, current) ==
    IF current.outAmount > best.outAmount THEN current ELSE best

RECURSIVE ReduceFrom(_, _, _)
ReduceFrom(qs, i, best) ==
    IF i > Len(qs) THEN best ELSE ReduceFrom(qs, i + 1, ReduceStep(best, qs[i]))

\* quotes.reduce(...) without an initial value: starts from quotes[0]
BestQuoteOf(qs) == ReduceFrom(qs, 2, qs[1])

\* the ternary with its branches exchanged
SwapFunction_Swapped(q) == IF q.provider = "jupiter" THEN "raydium" ELSE "jupiter"

\* bestQuote.provider === 'jupiter' ? jupiterSwap : raydiumSwap
SwapFunction(q) == IF q.provider = "jupiter" THEN "jupiter" ELSE "raydium"

\* the parts of an attempt the swap functions leave alone
AutoBuyVars == <<cycle, wallets, wi, processed, solanaLamports, solAmount, quoteResp, quoteErr, quotes,
                 bestQuote, swapProvider>>

\* a throw inside swapFunction lands in autoBuyToken's catch
Throw(e) ==
    /\ outcome' = "error"
    /\ err' = e
    /\ pc' = "catch"

\* the parts of an attempt getBestQuote and autoBuyToken's tail leave alone
SwapVars == <<quoteResponse, nTx, idx, maxTriesCounter, tryAgain,
              lastSignature, signed, status, polls, settles, quoteReqs,
              buildReqs, submitted, failedAt, outcome, err, result,
              swapQuoteResp, signature>>

\* ------------------------------------------------------------- main loop

\* the locals of one autoBuyToken call and of the swap it runs
CallVars == <<solanaLamports, solAmount, quoteResp, quoteErr, quotes,
              bestQuote, swapProvider, quoteResponse, nTx, idx,
              maxTriesCounter, tryAgain, lastSignature, signed, status, polls,
              settles, quoteReqs, buildReqs, submitted, failedAt, outcome,
              err, result, swapQuoteResp, signature>>

\* autoBuyToken(walletConfig) is entered: its locals are fresh and its first
\* step is the balance read
AutoBuyToken_Enter ==
    /\ pc' = "getBalance"
    /\ solanaLamports' = 0
    /\ solAmount' = 0
    /\ quoteResp' = [p \in Providers |-> NoResponse]
    /\ quoteErr' = [p \in Providers |-> "none"]
    /\ quotes' = <<>>
    /\ bestQuote' = NoQuote
    /\ swapProvider' = "none"
    /\ quoteResponse' = 0
    /\ nTx' = 0
    /\ idx' = 0
    /\ maxTriesCounter' = 0
    /\ tryAgain' = FALSE
    /\ lastSignature' = 0
    /\ signed' = {}
    /\ status' = [i \in TxIdx |-> "none"]
    /\ polls' = 0
    /\ settles' = {}
    /\ quoteReqs' = [p \in Providers |-> 0]
    /\ buildReqs' = [p \in Providers |-> 0]
    /\ submitted' = <<>>
    /\ failedAt' = 0
    /\ outcome' = "none"
    /\ err' = "none"
    /\ result' = 0
    /\ swapQuoteResp' = NoResponse
    /\ signature' = 0

\* main: one iteration of while(true) shuffles the wallets and calls
\* autoBuyToken for the first of them
Main_Cycle ==
    /\ pc = "main"
    /\ cycle < MaxCycles
    /\ cycle' = cycle + 1
    /\ \E shuffled \in ShuffleArray(wallets) :
        /\ wallets' = shuffled
        /\ processed' = [w \in Wallets |-> IF w = shuffled[1] THEN 1 ELSE 0]
    /\ wi' = 1
    /\ AutoBuyToken_Enter
    /\ UNCHANGED AtaVars

\* main: the awaited autoBuyToken call has returned; the for loop calls
\* autoBuyToken for the next wallet, or ends after the last one
Main_NextWallet ==
    /\ pc = "return"
    /\ IF wi < Len(wallets)
       THEN /\ wi' = wi + 1
            /\ processed' = [processed EXCEPT ![wallets[wi + 1]] = @ + 1]
            /\ AutoBuyToken_Enter
       ELSE /\ pc' = "cycleSleep"
            /\ UNCHANGED <<wi, processed>>
            /\ UNCHANGED CallVars
    /\ UNCHANGED <<cycle, wallets>>
    /\ UNCHANGED AtaVars

\* main: sleep(delayInMinutes) after the wallets were processed
Main_Sleep ==
    /\ pc = "cycleSleep"
    /\ pc' = "main"
    /\ UNCHANGED <<swapQuoteResp, signature, cycle, wallets, wi, processed, solanaLamports, solAmount, quoteResp, quoteErr,
                   quotes, bestQuote, swapProvider, quoteResponse, nTx, idx,
                   maxTriesCounter, tryAgain, lastSignature, signed, status,
                   polls, settles, quoteReqs, buildReqs, submitted, failedAt,
                   outcome, err, result>>
    /\ UNCHANGED AtaVars

\* ---------------------------------------------------------- autoBuyToken

\* autoBuyToken with the threshold at one buffer instead of two
AutoBuyToken_GetBalance_OneBuffer ==
    /\ pc = "getBalance"
    /\ \/ \E b \in Balances :
            /\ solanaLamports' = b
            /\ IF b >= LAMPORTS_BUFFER
               THEN solAmount' = b - LAMPORTS_BUFFER /\ pc' = "gbq_jupiter"
               ELSE solAmount' = solAmount /\ pc' = "return"
       \/ /\ pc' = "crashed"
          /\ UNCHANGED <<solanaLamports, solAmount>>
    /\ UNCHANGED <<cycle, wallets, wi, processed, quoteResp, quoteErr, quotes,
                   bestQuote, swapProvider>>
    /\ UNCHANGED SwapVars
    /\ UNCHANGED AtaVars

\* connection.getBalance and the threshold test; a rejected read is not
\* caught by autoBuyToken and ends main
AutoBuyToken_GetBalance ==
    /\ pc = "getBalance"
    /\ \/ \E b \in Balances :
            /\ solanaLamports' = b
            /\ IF b >= LAMPORTS_BUFFER * 2
               THEN solAmount' = b - LAMPORTS_BUFFER /\ pc' = "gbq_jupiter"
               ELSE solAmount' = solAmount /\ pc' = "return"
       \/ /\ pc' = "crashed"
          /\ UNCHANGED <<solanaLamports, solAmount>>
    /\ UNCHANGED <<swapQuoteResp, signature, cycle, wallets, wi, processed, quoteResp, quoteErr, quotes, bestQuote, swapProvider,
                   quoteResponse, nTx, idx, maxTriesCounter, tryAgain,
                   lastSignature, signed, status, polls, settles, quoteReqs,
                   buildReqs, submitted, failedAt, outcome, err, result>>
    /\ UNCHANGED AtaVars

\* getBestQuote without the first try/catch: a Jupiter failure leaves the
\* function at once
GetBestQuote_Jupiter_FailFast ==
    /\ pc = "gbq_jupiter"
    /\ \E resp \in JupiterResponses :
        LET r == GetJupiterQuote(resp)
        IN  /\ quoteResp' = [quoteResp EXCEPT !["jupiter"] = resp]
            /\ quoteReqs' = [quoteReqs EXCEPT !["jupiter"] = @ + 1]
            /\ quoteErr' = [quoteErr EXCEPT !["jupiter"] = r.error]
            /\ IF r.ok
               THEN /\ quotes' = Append(quotes, r.quote)
                    /\ pc' = "gbq_raydium"
                    /\ UNCHANGED <<outcome, err>>
               ELSE /\ quotes' = quotes
                    /\ Throw(r.error)
    /\ UNCHANGED <<swapQuoteResp, signature, cycle, wallets, wi, processed, solanaLamports, solAmount, bestQuote, swapProvider,
                   quoteResponse, nTx, idx, maxTriesCounter, tryAgain,
                   lastSignature, signed, status, polls, settles, buildReqs,
                   submitted, failedAt, result>>
    /\ UNCHANGED AtaVars

\* getBestQuote: the first try block (Jupiter); an error is logged only
GetBestQuote_Jupiter ==
    /\ pc = "gbq_jupiter"
    /\ \E resp \in JupiterResponses :
        LET r == GetJupiterQuote(resp)
        IN  /\ quoteResp' = [quoteResp EXCEPT !["jupiter"] = resp]
            /\ quoteReqs' = [quoteReqs EXCEPT !["jupiter"] = @ + 1]
            /\ quotes' = IF r.ok THEN Append(quotes, r.quote) ELSE quotes
            /\ quoteErr' = [quoteErr EXCEPT !["jupiter"] = r.error]
    /\ pc' = "gbq_raydium"
    /\ UNCHANGED <<swapQuoteResp, signature, cycle, wallets, wi, processed, solanaLamports, solAmount, bestQuote, swapProvider,
                   quoteResponse, nTx, idx, maxTriesCounter, tryAgain,
                   lastSignature, signed, status, polls, settles, buildReqs,
                   submitted, failedAt, outcome, err, result>>
    /\ UNCHANGED AtaVars

\* getBestQuote: the second try block (Raydium); an error is logged only
GetBestQuote_Raydium ==
    /\ pc = "gbq_raydium"
    /\ \E resp \in RaydiumResponses :
        LET r == RaydiumGetQuote(resp)
        IN  /\ quoteResp' = [quoteResp EXCEPT !["raydium"] = resp]
            /\ quoteReqs' = [quoteReqs EXCEPT !["raydium"] = @ + 1]
            /\ quotes' = IF r.ok THEN Append(quotes, r.quote) ELSE quotes
            /\ quoteErr' = [quoteErr EXCEPT !["raydium"] = r.error]
    /\ pc' = "gbq_select"
    /\ UNCHANGED <<swapQuoteResp, signature, cycle, wallets, wi, processed, solanaLamports, solAmount, bestQuote, swapProvider,
                   quoteResponse, nTx, idx, maxTriesCounter, tryAgain,
                   lastSignature, signed, status, polls, settles, buildReqs,
                   submitted, failedAt, outcome, err, result>>
    /\ UNCHANGED AtaVars

\* getBestQuote: the empty test and the reduce; autoBuyToken then picks
\* swapFunction from bestQuote.provider
GetBestQuote_Select ==
    /\ pc = "gbq_select"
    /\ IF Len(quotes) = 0
       THEN /\ outcome' = "error"
            /\ err' = "No quotes available from any provider"
            /\ pc' = "catch"
            /\ UNCHANGED <<bestQuote, swapProvider>>
       ELSE /\ bestQuote' = BestQuoteOf(quotes)
            /\ swapProvider' = SwapFunction(BestQuoteOf(quotes))
            /\ pc' = IF SwapFunction(BestQuoteOf(quotes)) = "jupiter"
                     THEN "j_quote" ELSE "r_quote"
            /\ UNCHANGED <<outcome, err>>
    /\ UNCHANGED <<swapQuoteResp, signature, cycle, wallets, wi, processed, solanaLamports, solAmount, quoteResp, quoteErr,
                   quotes, quoteResponse, nTx, idx, maxTriesCounter, tryAgain,
                   lastSignature, signed, status, polls, settles, quoteReqs,
                   buildReqs, submitted, failedAt, result>>
    /\ UNCHANGED AtaVars

\* ------------------------------------------------- Jupiter swap (part_000)

\* swap: what the quote step of the Jupiter swap yields for an HTTP answer.
\* An error status is thrown with the status in the message, a failure
\* without a response is rethrown as it is, an empty body is rejected
JupiterSwapQuote(resp) ==
    IF resp.kind = "http401"
    THEN [ok |-> FALSE, error |-> "Jupiter API error: 401", out |-> 0]
    ELSE IF resp.kind = "httpOther"
    THEN [ok |-> FALSE, error |-> "Jupiter API error: other status", out |-> 0]
    ELSE IF resp.kind = "network"
    THEN [ok |-> FALSE, error |-> "network error", out |-> 0]
    ELSE IF resp.kind = "empty"
    THEN [ok |-> FALSE, error |-> "Failed to get quote from Jupiter API",
          out |-> 0]
    ELSE [ok |-> TRUE, error |-> "none", out |-> resp.out]

\* swap: axios.get of the quote; only an empty body is rejected
J_Quote ==
    /\ pc = "j_quote"
    /\ quoteReqs' = [quoteReqs EXCEPT !["jupiter"] = @ + 1]
    /\ \E resp \in JupiterResponses :
        LET r == JupiterSwapQuote(resp)
        IN  /\ swapQuoteResp' = resp
            /\ IF r.ok
               THEN /\ quoteResponse' = r.out
                    /\ pc' = "j_build"
                    /\ UNCHANGED <<outcome, err>>
               ELSE /\ Throw(r.error)
                    /\ UNCHANGED quoteResponse
    /\ UNCHANGED AutoBuyVars
    /\ UNCHANGED <<signature, nTx, idx, maxTriesCounter, tryAgain,
                   lastSignature, signed, status, polls, settles, buildReqs,
                   submitted, failedAt, result>>
    /\ UNCHANGED AtaVars

\* swap: axios.post to the swap endpoint and the deserialization of the one
\* transaction it returns
J_Build ==
    /\ pc = "j_build"
    /\ buildReqs' = [buildReqs EXCEPT !["jupiter"] = @ + 1]
    /\ \/ /\ nTx' = 1
          /\ idx' = 1
          /\ pc' = "j_sign"
          /\ UNCHANGED <<outcome, err>>
       \/ /\ \E e \in {"Jupiter Swap API error", "network error",
                       "deserialize failed"} : Throw(e)
          /\ UNCHANGED <<nTx, idx>>
    /\ UNCHANGED AutoBuyVars
    /\ UNCHANGED <<swapQuoteResp, signature, quoteResponse, maxTriesCounter, tryAgain, lastSignature,
                   signed, status, polls, settles, quoteReqs, submitted,
                   failedAt, result>>
    /\ UNCHANGED AtaVars

\* swap: transaction.sign and the initialisation of the loop variables
J_Sign ==
    /\ pc = "j_sign"
    /\ \/ /\ signed' = signed \cup {idx}
          /\ tryAgain' = TRUE
          /\ maxTriesCounter' = 0
          /\ pc' = "j_send"
          /\ UNCHANGED <<outcome, err, failedAt>>
       \/ /\ Throw("sign failed")
          /\ failedAt' = idx
          /\ UNCHANGED <<signed, tryAgain, maxTriesCounter>>
    /\ UNCHANGED AutoBuyVars
    /\ UNCHANGED <<swapQuoteResp, signature, quoteResponse, nTx, idx, lastSignature, status, polls,
                   settles, quoteReqs, buildReqs, submitted, result>>
    /\ UNCHANGED AtaVars

\* swap: the head of one iteration of while (tryAgain): the counter and
\* connection.sendRawTransaction
J_Send ==
    /\ pc = "j_send"
    /\ tryAgain
    /\ maxTriesCounter' = maxTriesCounter + 1
    /\ \/ /\ submitted' = Append(submitted, [provider |-> "jupiter", tx |-> idx])
          /\ pc' = "j_poll"
          /\ UNCHANGED <<outcome, err, failedAt>>
       \/ /\ Throw("send failed")
          /\ failedAt' = idx
          /\ UNCHANGED submitted
    /\ UNCHANGED AutoBuyVars
    /\ UNCHANGED <<swapQuoteResp, signature, quoteResponse, nTx, idx, tryAgain, lastSignature, signed,
                   status, polls, settles, quoteReqs, buildReqs, result>>
    /\ UNCHANGED AtaVars

\* the loop tests without the one on the status
StillTrying_CounterOnly(v, counter) == ~(counter > maxTries)

\* what tryAgain is after the two tests at the end of an iteration:
\* if (value !== null) tryAgain = false; if (counter > maxTries) tryAgain = false
StillTrying(v, counter) == ~(v # "null") /\ ~(counter > maxTries)

\* swap: the rest of the iteration: wait, connection.getSignatureStatus, the
\* two tests that clear tryAgain, and the return after the loop
J_Poll ==
    /\ pc = "j_poll"
    /\ \/ \E v \in {"null", "ok", "err"} :
            LET again == StillTrying(v, maxTriesCounter)
            IN  /\ polls' = polls + 1
                /\ status' = [status EXCEPT ![idx] = v]
                /\ tryAgain' = again
                /\ IF again
                   THEN /\ pc' = "j_send"
                        /\ UNCHANGED <<signature, outcome, result>>
                   ELSE /\ pc' = "ok"
                        /\ outcome' = "ok"
                        /\ result' = quoteResponse
                        /\ signature' = 0
                /\ UNCHANGED <<err, failedAt>>
       \/ /\ Throw("status read failed")
          /\ failedAt' = idx
          /\ UNCHANGED <<signature, polls, status, tryAgain, result>>
    /\ UNCHANGED AutoBuyVars
    /\ UNCHANGED <<swapQuoteResp, quoteResponse, nTx, idx, maxTriesCounter, lastSignature,
                   signed, settles, quoteReqs, buildReqs, submitted>>
    /\ UNCHANGED AtaVars

\* ---------------------------------------------------- Raydium swap (main.js)

\* swap: getSwapData, the validity test of the answer, getTokenDecimals (a
\* read that never throws) and the quote log line
R_Quote ==
    /\ pc = "r_quote"
    /\ quoteReqs' = [quoteReqs EXCEPT !["raydium"] = @ + 1]
    /\ \E resp \in RaydiumResponses :
        LET computeData == GetSwapData(resp)
        IN  /\ swapQuoteResp' = resp
            /\ IF ~computeData.ok \/ computeData.data.kind = "invalid"
               THEN Throw("Raydium swap failed") /\ UNCHANGED quoteResponse
               ELSE /\ quoteResponse' = computeData.data.out
                    /\ pc' = "r_build"
                    /\ UNCHANGED <<outcome, err>>
    /\ UNCHANGED AutoBuyVars
    /\ UNCHANGED <<signature, nTx, idx, maxTriesCounter, tryAgain, lastSignature, signed,
                   status, polls, settles, buildReqs, submitted, failedAt,
                   result>>
    /\ UNCHANGED AtaVars

\* a swap that creates the output token account itself (a creation
\* transaction of ensureOutputATA) before it asks for the transactions
R_Build_PreCreate ==
    /\ pc = "r_build"
    /\ buildReqs' = [buildReqs EXCEPT !["raydium"] = @ + 1]
    /\ createTxs' = createTxs + 1
    /\ \/ \E n \in 0..MaxTx :
            IF n = 0
            THEN Throw("Raydium swap failed") /\ UNCHANGED <<nTx, idx>>
            ELSE /\ nTx' = n
                 /\ idx' = 1
                 /\ pc' = "r_sign"
                 /\ UNCHANGED <<outcome, err>>
       \/ /\ Throw("Raydium swap failed")
          /\ UNCHANGED <<nTx, idx>>
    /\ UNCHANGED AutoBuyVars
    /\ UNCHANGED <<quoteResponse, maxTriesCounter, tryAgain, lastSignature,
                   signed, status, polls, settles, quoteReqs, submitted,
                   failedAt, result, swapQuoteResp, signature>>
    /\ UNCHANGED <<mintOwner, ataOnChain, epc, call, mintRead,
                   outputTokenProgram, outputAta, returned>>

\* swap: serializeSwapTransaction (one POST to the build endpoint), the test
\* for an empty answer and the deserialization of the n transactions
R_Build ==
    /\ pc = "r_build"
    /\ buildReqs' = [buildReqs EXCEPT !["raydium"] = @ + 1]
    /\ \/ \E n \in 0..MaxTx :
            IF n = 0
            THEN Throw("Raydium swap failed") /\ UNCHANGED <<nTx, idx>>
            ELSE /\ nTx' = n
                 /\ idx' = 1
                 /\ pc' = "r_sign"
                 /\ UNCHANGED <<outcome, err>>
       \/ /\ Throw("Raydium swap failed")
          /\ UNCHANGED <<nTx, idx>>
    /\ UNCHANGED AutoBuyVars
    /\ UNCHANGED <<swapQuoteResp, signature, quoteResponse, maxTriesCounter, tryAgain, lastSignature,
                   signed, status, polls, settles, quoteReqs, submitted,
                   failedAt, result>>
    /\ UNCHANGED AtaVars

\* swap: transaction.sign([keyPair]) of allTransactions[idx]
R_Sign ==
    /\ pc = "r_sign"
    /\ \/ /\ signed' = signed \cup {idx}
          /\ pc' = "r_send"
          /\ UNCHANGED <<outcome, err, failedAt>>
       \/ /\ Throw("Raydium swap failed")
          /\ failedAt' = idx
          /\ UNCHANGED signed
    /\ UNCHANGED AutoBuyVars
    /\ UNCHANGED <<swapQuoteResp, signature, quoteResponse, nTx, idx, maxTriesCounter, tryAgain,
                   lastSignature, status, polls, settles, quoteReqs, buildReqs,
                   submitted, result>>
    /\ UNCHANGED AtaVars

\* sendTransaction inside a try/catch of its own that only logs: the loop
\* goes on with the next transaction after a rejected send
R_Send_Swallow ==
    /\ pc = "r_send"
    /\ \/ /\ submitted' = Append(submitted, [provider |-> "raydium", tx |-> idx])
          /\ lastSignature' = idx
          /\ pc' = "r_confirm"
          /\ UNCHANGED <<signature, outcome, result, failedAt, idx>>
       \/ /\ failedAt' = idx
          /\ IF idx < nTx
             THEN /\ idx' = idx + 1
                  /\ pc' = "r_sign"
                  /\ UNCHANGED <<signature, outcome, result>>
             ELSE /\ idx' = idx
                  /\ pc' = "ok"
                  /\ outcome' = "ok"
                  /\ result' = quoteResponse
                  /\ signature' = lastSignature
          /\ UNCHANGED <<submitted, lastSignature>>
    /\ UNCHANGED AutoBuyVars
    /\ UNCHANGED <<swapQuoteResp, quoteResponse, nTx, maxTriesCounter, tryAgain, signed,
                   status, polls, settles, quoteReqs, buildReqs, err>>
    /\ UNCHANGED AtaVars

\* swap: connection.sendTransaction and lastSignature = signature
R_Send ==
    /\ pc = "r_send"
    /\ \/ /\ submitted' = Append(submitted, [provider |-> "raydium", tx |-> idx])
          /\ lastSignature' = idx
          /\ pc' = "r_confirm"
          /\ UNCHANGED <<outcome, err, failedAt>>
       \/ /\ Throw("Raydium swap failed")
          /\ failedAt' = idx
          /\ UNCHANGED <<submitted, lastSignature>>
    /\ UNCHANGED AutoBuyVars
    /\ UNCHANGED <<swapQuoteResp, signature, quoteResponse, nTx, idx, maxTriesCounter, tryAgain, signed,
                   status, polls, settles, quoteReqs, buildReqs, result>>
    /\ UNCHANGED AtaVars

\* the loop body without the await of the confirmation: the next
\* transaction is taken up while this one has no status yet
R_Confirm_NoAwait ==
    /\ pc = "r_confirm"
    /\ IF idx < nTx
       THEN /\ pc' = "r_settle"
            /\ UNCHANGED <<signature, outcome, result>>
       ELSE /\ pc' = "ok"
            /\ outcome' = "ok"
            /\ result' = quoteResponse
            /\ signature' = lastSignature
    /\ UNCHANGED AutoBuyVars
    /\ UNCHANGED <<swapQuoteResp, quoteResponse, nTx, idx, maxTriesCounter, tryAgain,
                   lastSignature, signed, status, polls, settles, quoteReqs,
                   buildReqs, submitted, err, failedAt>>
    /\ UNCHANGED AtaVars

\* swap: getLatestBlockhash and confirmTransaction. confirmTransaction
\* resolves once the signature has a status (its value is not looked at) and
\* rejects when the blockhash expires first; after the last transaction the
\* swap returns its result
R_Confirm ==
    /\ pc = "r_confirm"
    /\ \/ \E v \in {"ok", "err"} :
            /\ status' = [status EXCEPT ![idx] = v]
            /\ IF idx < nTx
               THEN /\ pc' = "r_settle"
                    /\ UNCHANGED <<signature, outcome, result>>
               ELSE /\ pc' = "ok"
                    /\ outcome' = "ok"
                    /\ result' = quoteResponse
                    /\ signature' = lastSignature
            /\ UNCHANGED <<err, failedAt>>
       \/ /\ Throw("Raydium swap failed")
          /\ failedAt' = idx
          /\ UNCHANGED <<signature, status, result>>
    /\ UNCHANGED AutoBuyVars
    /\ UNCHANGED <<swapQuoteResp, quoteResponse, nTx, idx, maxTriesCounter, tryAgain,
                   lastSignature, signed, polls, settles, quoteReqs, buildReqs,
                   submitted>>
    /\ UNCHANGED AtaVars

\* the loop without the wait between two transactions
R_Settle_NoWait ==
    /\ pc = "r_settle"
    /\ idx' = idx + 1
    /\ pc' = "r_sign"
    /\ UNCHANGED AutoBuyVars
    /\ UNCHANGED <<quoteResponse, nTx, maxTriesCounter, tryAgain,
                   lastSignature, signed, status, polls, settles, quoteReqs,
                   buildReqs, submitted, failedAt, outcome, err, result,
                   swapQuoteResp, signature>>
    /\ UNCHANGED AtaVars

\* swap: the 5 s wait between two transactions and the loop's idx++
R_Settle ==
    /\ pc = "r_settle"
    /\ settles' = settles \cup {idx}
    /\ idx' = idx + 1
    /\ pc' = "r_sign"
    /\ UNCHANGED AutoBuyVars
    /\ UNCHANGED <<swapQuoteResp, signature, quoteResponse, nTx, maxTriesCounter, tryAgain,
                   lastSignature, signed, status, polls, quoteReqs, buildReqs,
                   submitted, failedAt, outcome, err, result>>
    /\ UNCHANGED AtaVars

\* ------------------------------------------------- autoBuyToken, the tail

\* autoBuyToken: the success log line after swapFunction returned
AutoBuyToken_Success ==
    /\ pc = "ok"
    /\ pc' = "sleep"
    /\ UNCHANGED AutoBuyVars
    /\ UNCHANGED SwapVars
    /\ UNCHANGED AtaVars

\* a catch block that falls back to the other provider's swap after the
\* selected provider's swap failed
AutoBuyToken_Catch_Fallback ==
    /\ pc = "catch"
    /\ IF swapProvider = bestQuote.provider /\ swapProvider # "none"
       THEN /\ swapProvider' = IF swapProvider = "jupiter" THEN "raydium"
                               ELSE "jupiter"
            /\ pc' = IF swapProvider = "jupiter" THEN "r_quote" ELSE "j_quote"
       ELSE /\ pc' = "sleep"
            /\ UNCHANGED swapProvider
    /\ UNCHANGED <<cycle, wallets, wi, processed, solanaLamports, solAmount, quoteResp, quoteErr,
                   quotes, bestQuote>>
    /\ UNCHANGED SwapVars
    /\ UNCHANGED AtaVars

\* autoBuyToken: the catch block only logs the error
AutoBuyToken_Catch ==
    /\ pc = "catch"
    /\ pc' = "sleep"
    /\ UNCHANGED AutoBuyVars
    /\ UNCHANGED SwapVars
    /\ UNCHANGED AtaVars

\* autoBuyToken: sleep(SOLANA_DELAY_IN_MS) and the return to main
AutoBuyToken_Sleep ==
    /\ pc = "sleep"
    /\ pc' = "return"
    /\ UNCHANGED AutoBuyVars
    /\ UNCHANGED SwapVars
    /\ UNCHANGED AtaVars

Next ==
    \/ Main_Cycle
    \/ Main_NextWallet
    \/ Main_Sleep
    \/ AutoBuyToken_GetBalance
    \/ GetBestQuote_Jupiter
    \/ GetBestQuote_Raydium
    \/ GetBestQuote_Select
    \/ J_Quote
    \/ J_Build
    \/ J_Sign
    \/ J_Send
    \/ J_Poll
    \/ R_Quote
    \/ R_Build
    \/ R_Sign
    \/ R_Send
    \/ R_Confirm
    \/ R_Settle
    \/ AutoBuyToken_Success
    \/ AutoBuyToken_Catch
    \/ AutoBuyToken_Sleep

Spec == Init /\ [][Next]_vars

\* the event loop runs every continuation that is ready
FairSpec == Spec /\ WF_vars(Next)

TypeOK ==
    /\ cycle \in 0..MaxCycles
    /\ wallets \in ShuffleArray(LoadWallets)
    /\ wi \in 0..NumWallets
    /\ processed \in [Wallets -> 0..1]
    /\ Len(quotes) <= 2
    /\ idx \in 0..MaxTx
    /\ nTx \in 0..MaxTx
    /\ outcome \in {"none", "ok", "error"}

\* ------------------------------------------- token accounts (main.js)

TOKEN_PROGRAM_ID == "Token"
TOKEN_2022_PROGRAM_ID == "Token2022"

\* who may own the output mint's account on chain: one of the two token
\* programs, some other program, or nobody (no such account)
MintOwners == {TOKEN_PROGRAM_ID, TOKEN_2022_PROGRAM_ID, "Other", "Missing"}

\* the mint and the wallet ensureOutputATA is called with
OutputMint == "mint"
WalletKey == "wallet"

\* the variables of main, autoBuyToken and the swaps
MainVars == <<pc, cycle, wallets, wi, processed, solanaLamports, solAmount, quoteResp, quoteErr,
              quotes, bestQuote, swapProvider, quoteResponse, nTx, idx,
              maxTriesCounter, tryAgain, lastSignature, signed, status, polls,
              settles, quoteReqs, buildReqs, submitted, failedAt, outcome,
              err, result, swapQuoteResp, signature>>

\* what connection.getAccountInfo(mint) can answer: the account with its
\* owner, null when there is no account, or a rejection
MintReads ==
    {[kind |-> "error", owner |-> "none"]}
        \cup (IF mintOwner = "Missing"
              THEN {[kind |-> "null", owner |-> "none"]}
              ELSE {[kind |-> "ok", owner |-> mintOwner]})

\* detectTokenProgram without its try/catch: a rejected read is thrown on
DetectTokenProgram_NoCatch(read) ==
    IF read.kind = "error" THEN "throw"
    ELSE IF read.kind = "null" THEN TOKEN_PROGRAM_ID
    ELSE IF read.owner = TOKEN_2022_PROGRAM_ID THEN TOKEN_2022_PROGRAM_ID
    ELSE TOKEN_PROGRAM_ID

\* detectTokenProgram: Token-2022 for an account owned by Token-2022, Token
\* for a missing account, any other owner and a rejected read
DetectTokenProgram(read) ==
    IF read.kind = "error" THEN TOKEN_PROGRAM_ID
    ELSE IF read.kind = "null" THEN TOKEN_PROGRAM_ID
    ELSE IF read.owner = TOKEN_2022_PROGRAM_ID THEN TOKEN_2022_PROGRAM_ID
    ELSE TOKEN_PROGRAM_ID

\* getAssociatedTokenAddress: the address derived from mint, owner and
\* token program; different inputs give different addresses
GetAssociatedTokenAddress(mint, owner, program) ==
    [mint |-> mint, owner |-> owner, program |-> program]

\* the creation instruction succeeds on chain only for the program that
\* owns the mint and an account that does not exist yet
CanCreate(ata) == ata.program = mintOwner /\ ata \notin ataOnChain

\* ensureOutputATA is called (again) for the same wallet and mint
EnsureOutputATA_Call ==
    /\ epc \in {"idle", "returned"}
    /\ call < MaxCalls
    /\ call' = call + 1
    /\ epc' = "detect"
    /\ mintRead' = NoMintRead
    /\ outputTokenProgram' = "none"
    /\ outputAta' = NoAta
    /\ UNCHANGED <<mintOwner, ataOnChain, createTxs, returned>>
    /\ UNCHANGED MainVars

\* ensureOutputATA: detectTokenProgram and getAssociatedTokenAddress
EnsureOutputATA_Detect ==
    /\ epc = "detect"
    /\ \E read \in MintReads :
        /\ mintRead' = read
        /\ outputTokenProgram' = DetectTokenProgram(read)
        /\ outputAta' = GetAssociatedTokenAddress(OutputMint, WalletKey,
                                                  DetectTokenProgram(read))
    /\ epc' = "getAccount"
    /\ UNCHANGED <<mintOwner, ataOnChain, createTxs, call, returned>>
    /\ UNCHANGED MainVars

\* ensureOutputATA: getAccount; the account is returned when the read
\* succeeds, every rejection (no account, failed read) leads to the creation
EnsureOutputATA_GetAccount ==
    /\ epc = "getAccount"
    /\ \/ /\ outputAta \in ataOnChain
          /\ returned' = Append(returned, outputAta)
          /\ epc' = "returned"
       \/ /\ epc' = "send"
          /\ UNCHANGED returned
    /\ UNCHANGED <<mintOwner, ataOnChain, createTxs, call, mintRead,
                   outputTokenProgram, outputAta>>
    /\ UNCHANGED MainVars

\* ensureOutputATA: connection.sendTransaction of the creation transaction;
\* a rejection lands in the outer catch
EnsureOutputATA_Send ==
    /\ epc = "send"
    /\ \/ /\ createTxs' = createTxs + 1
          /\ epc' = "confirm"
       \/ /\ epc' = "fallback"
          /\ UNCHANGED createTxs
    /\ UNCHANGED <<mintOwner, ataOnChain, call, mintRead, outputTokenProgram,
                   outputAta, returned>>
    /\ UNCHANGED MainVars

\* ensureOutputATA: getLatestBlockhash and confirmTransaction. The
\* transaction lands and creates the account, lands with an error, or the
\* wait is rejected (the transaction may have landed all the same); a
\* resolved wait returns the address whatever the status says
EnsureOutputATA_Confirm ==
    /\ epc = "confirm"
    /\ \/ /\ CanCreate(outputAta)
          /\ ataOnChain' = ataOnChain \cup {outputAta}
          /\ returned' = Append(returned, outputAta)
          /\ epc' = "returned"
       \/ /\ returned' = Append(returned, outputAta)
          /\ epc' = "returned"
          /\ UNCHANGED ataOnChain
       \/ /\ epc' = "fallback"
          /\ \/ UNCHANGED ataOnChain
             \/ /\ CanCreate(outputAta)
                /\ ataOnChain' = ataOnChain \cup {outputAta}
          /\ UNCHANGED returned
    /\ UNCHANGED <<mintOwner, createTxs, call, mintRead, outputTokenProgram,
                   outputAta>>
    /\ UNCHANGED MainVars

\* ensureOutputATA: the outer catch detects the program once more and
\* returns the address derived from it
EnsureOutputATA_Fallback ==
    /\ epc = "fallback"
    /\ \E read \in MintReads :
        /\ mintRead' = read
        /\ outputTokenProgram' = DetectTokenProgram(read)
        /\ returned' = Append(returned,
                GetAssociatedTokenAddress(OutputMint, WalletKey,
                                          DetectTokenProgram(read)))
    /\ epc' = "returned"
    /\ UNCHANGED <<mintOwner, ataOnChain, createTxs, call, outputAta>>
    /\ UNCHANGED MainVars

\* a chain with any owner of the mint, the associated account of the owning
\* token program present or not, and no call made yet
AtaInit ==
    /\ pc = "main"
    /\ cycle = 0
    /\ wallets = LoadWallets
    /\ wi = 0
    /\ processed = [w \in Wallets |-> 0]
    /\ FreshCall
    /\ mintOwner \in MintOwners
    /\ ataOnChain \in
        {{}} \cup {{GetAssociatedTokenAddress(OutputMint, WalletKey, o)} :
                        o \in {mintOwner} \cap
                              {TOKEN_PROGRAM_ID, TOKEN_2022_PROGRAM_ID}}
    /\ AtaIdle

AtaNext ==
    \/ EnsureOutputATA_Call
    \/ EnsureOutputATA_Detect
    \/ EnsureOutputATA_GetAccount
    \/ EnsureOutputATA_Send
    \/ EnsureOutputATA_Confirm
    \/ EnsureOutputATA_Fallback

\* calls of ensureOutputATA for one wallet and mint, one after the other
AtaSpec == AtaInit /\ [][AtaNext]_vars

\* ------------------------------------------------------------ properties

\* getBestQuote has been called and has returned or thrown
GbqReturned ==
    /\ solAmount > 0
    /\ pc \notin {"gbq_jupiter", "gbq_raydium", "gbq_select"}

\* the provider answered getBestQuote's request with an outAmount
Quoted(p) == quoteResp[p].kind = "ok"

NoQuotesError == "No quotes available from any provider"

\* C1: whatever the two providers answered, getBestQuote returns a quote of
\* a provider that answered with an outAmount, that outAmount is the largest
\* one answered, and it throws "No quotes available" exactly when no
\* provider answered with an outAmount.
C1_BestQuoteIsMax ==
    GbqReturned =>
        /\ (bestQuote = NoQuote) <=> (\A p \in Providers : ~Quoted(p))
        /\ (outcome = "error" /\ err = NoQuotesError)
                <=> (\A p \in Providers : ~Quoted(p))
        /\ bestQuote # NoQuote =>
            /\ bestQuote.provider \in Providers
            /\ Quoted(bestQuote.provider)
            /\ bestQuote.outAmount = quoteResp[bestQuote.provider].out
            /\ \A p \in Providers :
                    Quoted(p) => quoteResp[p].out <= bestQuote.outAmount

\* C1 witness: both providers quoted, the second one more, and it was chosen
C1_Witness ==
    /\ GbqReturned
    /\ Quoted("jupiter") /\ Quoted("raydium")
    /\ quoteResp["raydium"].out > quoteResp["jupiter"].out
    /\ bestQuote.provider = "raydium"

\* C2: a Jupiter swap whose 6 status polls all returned null does not end
\* in success (the claim as stated)
C2_TimeoutIsError ==
    (swapProvider = "jupiter" /\ polls >= 6 /\ status[1] = "null")
        => outcome # "ok"

\* C3: within one swap call no transaction is sent to the network twice
\* (the claim as stated)
C3_SubmitAtMostOnce ==
    \A i, j \in DOMAIN submitted :
        i # j => submitted[i].tx # submitted[j].tx

\* C4: a transaction after the first is submitted only when the
\* confirmation of its predecessor has returned a status
C4_SubmitAfterConfirm ==
    \A i \in DOMAIN submitted :
        submitted[i].tx > 1 => status[submitted[i].tx - 1] \in {"ok", "err"}

\* C4 witness: the second transaction of a set has been submitted
C4_Witness ==
    \E i \in DOMAIN submitted : submitted[i].tx = 2

\* C5: every build request and every submission of an attempt goes to the
\* provider of the quote getBestQuote selected, and a swap that succeeded
\* was built by that provider
C5_OneProvider ==
    /\ \A p \in Providers : buildReqs[p] > 0 => p = bestQuote.provider
    /\ \A i \in DOMAIN submitted : submitted[i].provider = bestQuote.provider
    /\ outcome = "ok" =>
            /\ buildReqs[bestQuote.provider] = 1
            /\ Len(submitted) > 0

\* C5 witness: both providers quoted and a transaction was submitted
C5_Witness ==
    /\ Quoted("jupiter") /\ Quoted("raydium")
    /\ Len(submitted) > 0
    /\ outcome = "ok"

\* C6: the outAmount of a successful swap's result is the outAmount of the
\* quote getBestQuote selected (the claim as stated)
C6_ResultIsSelectedQuote ==
    outcome = "ok" => result = bestQuote.outAmount

\* C7: when one provider's quote call failed in getBestQuote the other
\* provider was queried all the same, and if that one quoted, its quote is
\* the one returned
C7_FailureIsIsolated ==
    GbqReturned =>
        \A p, q \in Providers :
            (p # q /\ ~Quoted(p)) =>
                /\ quoteResp[p].kind # "none"
                /\ quoteResp[q].kind # "none"
                /\ quoteReqs[q] >= 1
                /\ Quoted(q) =>
                        bestQuote = [provider |-> q,
                                     outAmount |-> quoteResp[q].out]

\* C7 witness: Jupiter answered 401, Raydium quoted and was returned
C7_Witness ==
    /\ GbqReturned
    /\ quoteResp["jupiter"].kind = "http401"
    /\ Quoted("raydium")
    /\ bestQuote.provider = "raydium"

SwapFailed ==
    /\ outcome = "error"
    /\ swapProvider # "none"
    /\ buildReqs[swapProvider] > 0

\* C9: after the build or the execution of the selected provider's swap
\* failed, the attempt keeps that error and sends no further quote request,
\* build request or transaction, and signs nothing more
C9_NoFallback ==
    [][(SwapFailed /\ cycle' = cycle /\ wi' = wi) =>
            /\ outcome' = "error"
            /\ err' = err
            /\ quoteReqs' = quoteReqs
            /\ buildReqs' = buildReqs
            /\ submitted' = submitted
            /\ signed' = signed]_vars

\* C9 witness: the attempt is past the catch block after such a failure
C9_Witness ==
    /\ SwapFailed
    /\ pc = "return"

\* the Jupiter swap is inside its send-and-poll loop
InPollLoop == pc \in {"j_send", "j_poll"}

\* C10: the Jupiter swap polls the status at most 6 times, polls only while
\* no status or a null status has been seen, and leaves the loop
C10_PollLoopBounded ==
    /\ [](polls <= 6)
    /\ [][polls' > polls => status[idx] \in {"none", "null"}]_vars
    /\ [](InPollLoop => <>(~InPollLoop))

\* C10 witness: the full budget of polls was used
C10_Witness ==
    /\ swapProvider = "jupiter"
    /\ polls = 6
    /\ ~InPollLoop

\* C11: when both providers quoted the same outAmount, getBestQuote returns
\* the quote of Jupiter, the provider it queries first
C11_TieGoesToFirst ==
    (GbqReturned /\ Quoted("jupiter") /\ Quoted("raydium")
        /\ quoteResp["jupiter"].out = quoteResp["raydium"].out)
        => /\ quotes[1].provider = "jupiter"
           /\ bestQuote = quotes[1]

\* C11 witness: a tie between the two providers was decided
C11_Witness ==
    /\ GbqReturned
    /\ Quoted("jupiter") /\ Quoted("raydium")
    /\ quoteResp["jupiter"].out = quoteResp["raydium"].out
    /\ bestQuote.provider = "jupiter"

\* C12: getBestQuote dispatches both quote requests at once: whenever its
\* request to Jupiter has been issued, its request to Raydium has been
\* issued too (the claim as stated)
C12_ConcurrentDispatch ==
    quoteReqs["jupiter"] >= 1 => quoteReqs["raydium"] >= 1

AuthRequiredError == "Jupiter API requires authentication"

C14_DetectTokenProgram ==
    mintRead.kind # "none" =>
        /\ outputTokenProgram \in {TOKEN_PROGRAM_ID, TOKEN_2022_PROGRAM_ID}
        /\ (outputTokenProgram = TOKEN_2022_PROGRAM_ID)
                <=> (mintRead.kind = "ok" /\ mintRead.owner = TOKEN_2022_PROGRAM_ID)

\* C14 witness: the read of a Token-2022 mint was rejected and Token answered
C14_Witness ==
    /\ mintOwner = TOKEN_2022_PROGRAM_ID
    /\ mintRead.kind = "error"
    /\ outputTokenProgram = TOKEN_PROGRAM_ID

\* C15: two calls of ensureOutputATA in sequence for the same wallet and
\* mint send at most one account-creation transaction in total and return
\* the same address (the claim as stated)
C15_Idempotent ==
    /\ createTxs <= 1
    /\ Len(returned) >= 2 => returned[1] = returned[2]

\* C16: every address ensureOutputATA has returned is the address of an
\* account that exists on chain (the claim as stated)
C16_ReturnedAccountExists ==
    \A i \in DOMAIN returned : returned[i] \in ataOnChain

\* C17: in the Raydium swap a transaction after the first is submitted only
\* after the settling wait that follows its predecessor, a settling wait
\* follows only a confirmed transaction that is not the last, and a swap
\* that succeeded has waited after every transaction but the last
C17_SettleBetween ==
    /\ \A i \in DOMAIN submitted :
            (submitted[i].provider = "raydium" /\ submitted[i].tx > 1)
                => (submitted[i].tx - 1) \in settles
    /\ \A k \in settles : k < nTx /\ status[k] \in {"ok", "err"}
    /\ (swapProvider = "raydium" /\ outcome = "ok")
            => settles = 1..(nTx - 1)

\* C17 witness: a swap of two transactions succeeded
C17_Witness ==
    /\ swapProvider = "raydium"
    /\ nTx = 2
    /\ outcome = "ok"
    /\ settles = {1}

\* C18: the result of a successful swap carries the signature of the last
\* transaction the swap submitted (the claim as stated)
C18_ResultHasLastSignature ==
    outcome = "ok" =>
        /\ Len(submitted) > 0
        /\ signature = submitted[Len(submitted)].tx

\* C19: the Raydium swap sends no account-creation transaction; what it
\* submits are the transactions of the build answer, each once and in the
\* order of the answer
C19_OnlyBuiltTransactions ==
    swapProvider = "raydium" =>
        /\ createTxs = 0
        /\ Len(submitted) <= nTx
        /\ \A i \in DOMAIN submitted :
                submitted[i] = [provider |-> "raydium", tx |-> i]

\* C19 witness: both transactions of a build answer were submitted
C19_Witness ==
    /\ swapProvider = "raydium"
    /\ nTx = 2
    /\ Len(submitted) = 2

\* C20: a swap that returned a result has seen, for every transaction of
\* its set, a status that reports no error (the claim as stated)
C20_SuccessMeansNoChainError ==
    outcome = "ok" => \A k \in 1..nTx : status[k] = "ok"

\* the flow is inside autoBuyToken's balance branch: quoting, building,
\* submitting, confirming, or in the tail of the call
InSwap ==
    pc \in {"gbq_jupiter", "gbq_raydium", "gbq_select", "j_quote", "j_build",
            "j_sign", "j_send", "j_poll", "r_quote", "r_build", "r_sign",
            "r_send", "r_confirm", "r_settle", "ok", "catch", "sleep"}

\* the autoBuyToken call in hand has asked for a quote, asked for a build,
\* signed or submitted something
SwapStarted ==
    \/ \E p \in Providers : quoteReqs[p] > 0 \/ buildReqs[p] > 0
    \/ signed # {}
    \/ submitted # <<>>
    \/ InSwap

\* C21: a swap is started only with a balance of at least twice
\* LAMPORTS_BUFFER, and then the amount handed to the swap is the balance
\* minus LAMPORTS_BUFFER, hence at least LAMPORTS_BUFFER and positive; with
\* a smaller balance nothing is handed over, no quote or build is requested
\* and nothing is signed or submitted
C21_SwapOnlyAboveThreshold ==
    IF solanaLamports >= 2 * LAMPORTS_BUFFER
    THEN /\ solAmount = solanaLamports - LAMPORTS_BUFFER
         /\ solAmount >= LAMPORTS_BUFFER
         /\ solAmount > 0
         /\ solAmount + LAMPORTS_BUFFER <= solanaLamports
    ELSE /\ solAmount = 0
         /\ ~SwapStarted

\* C21 witness: a wallet holding exactly twice the buffer had a transaction
\* submitted for it
C21_Witness ==
    /\ solanaLamports = 2 * LAMPORTS_BUFFER
    /\ solAmount = LAMPORTS_BUFFER
    /\ submitted # <<>>

\* C22: no error raised while a wallet is processed ends main: the flow
\* never reaches the state in which main's promise has rejected, where no
\* wallet and no cycle follows
C22_ErrorNeverStopsLoop ==
    pc # "crashed"

\* wallet w has a swap in progress
InProgress(w) ==
    /\ wi \in DOMAIN wallets
    /\ wallets[wi] = w
    /\ InSwap

\* the cycle in hand is over: main sleeps until the next one, or has ended
CycleEnded == pc \in {"cycleSleep", "crashed"}

\* C23: at most one wallet has a swap in progress, no wallet is processed
\* twice in a cycle, and when a cycle is over every wallet was processed
\* once in it
C23_OneAtATimeOncePerCycle ==
    /\ Cardinality({w \in Wallets : InProgress(w)}) <= 1
    /\ \A w \in Wallets : processed[w] <= 1
    /\ CycleEnded => \A w \in Wallets : processed[w] = 1

====
